---- MODULE Spec2Model ----
(***************************************************************************)
(* Control loop of MTA_model/trainer.py: class Trainer with train(),       *)
(* evaluate() and inference().  The collaborators (Transformer,            *)
(* ScheduledAdam, MTA_Loss, the iterators, torch.save / torch.load) are    *)
(* seen only through the calls the Trainer makes on them: what they return *)
(* is an input drawn from a small set.                                     *)
(***************************************************************************)
EXTENDS Integers, Sequences, FiniteSets, TLC

\* ------------------------------------------------------------------ bounds
MaxBatches == 2      \* longest iterator
MaxEpoch == 2        \* largest params.num_epoch
MaxCalls == 2        \* top-level calls made on one Trainer
MaxLoss == 2         \* largest finite value loss.item() takes

\* ------------------------------------------------------- float arithmetic
\* A Python float as the loop uses it: a finite rational n/d in lowest terms,
\* +inf, or nan.
RECURSIVE GCD(_, _)
GCD(a, b) == IF b = 0 THEN a ELSE GCD(b, a % b)

Fin(n) == [k |-> "fin", n |-> n, d |-> 1]
Inf == [k |-> "inf", n |-> 0, d |-> 1]
NaN == [k |-> "nan", n |-> 0, d |-> 1]

IsFinite(x) == x.k = "fin"

\* x + y  (epoch_loss += loss.item()); the accumulator holds whole numbers
FloatAdd(x, y) ==
    IF x.k = "nan" \/ y.k = "nan" THEN NaN
    ELSE IF x.k = "inf" \/ y.k = "inf" THEN Inf
    ELSE Fin(x.n + y.n)

\* x / n for a positive int n  (epoch_loss / len(iterator))
FloatDiv(x, n) ==
    IF x.k # "fin" THEN x
    ELSE IF x.n = 0 THEN Fin(0)
    ELSE LET g == GCD(x.n, x.d * n)
         IN  [k |-> "fin", n |-> x.n \div g, d |-> (x.d * n) \div g]

\* x < y  (valid_loss < best_valid_loss); every comparison with nan is False
FloatLess(x, y) ==
    IF x.k = "nan" \/ y.k = "nan" THEN FALSE
    ELSE IF x.k = "inf" THEN FALSE
    ELSE IF y.k = "inf" THEN TRUE
    ELSE x.n * y.d < y.n * x.d

RECURSIVE FloatSum(_)
FloatSum(s) == IF s = <<>> THEN Fin(0) ELSE FloatAdd(FloatSum(SubSeq(s, 1, Len(s) - 1)), s[Len(s)])

\* values the criterion's loss.item() may take
LossValues == {Fin(v) : v \in 1..MaxLoss} \cup {NaN, Inf}

\* ------------------------------------------------------------- the inputs
\* A batch is "ok" (its records hold every field) or "bad": its records lack
\* one field, the same for every bad batch a Trainer is given (missing_field).
\* The statement that first reads that field raises KeyError in train(),
\* AttributeError in evaluate()/inference(); a loop that never reads the
\* field goes on as with an "ok" batch.
BatchKinds == {"ok", "bad"}
MissingFields == {"price_sequential", "label"}
NoField == "none"      \* no batch is bad: no field is missing
Iterators == UNION {[1..n -> BatchKinds] : n \in 0..MaxBatches}

\* Positional arguments Transformer.forward may accept.
ForwardSignatures == {{4}, {5}, {4, 5}}

NoFile == [base |-> "nofile", steps |-> 0]
FreshParams == [base |-> "init", steps |-> 0]
SavedParams == [base |-> "saved", steps |-> 0]

NoOutcome == [op |-> "none", status |-> "none", error |-> "none", line |-> 0, value |-> Fin(0)]
Raised(o, e, l) == [op |-> o, status |-> "raised", error |-> e, line |-> l, value |-> Fin(0)]
Returned(o, v) == [op |-> o, status |-> "returned", error |-> "none", line |-> 0, value |-> v]

VARIABLES
    mode,            \* constructor argument mode
    num_epoch,       \* params.num_epoch
    train_iter,      \* self.train_iter (set only when mode = "train")
    valid_iter,      \* self.valid_iter (set only when mode = "train")
    test_iter,       \* self.test_iter (set only when mode # "train")
    forward_sig,     \* arities self.model(...) accepts
    missing_field,   \* the field the records of a "bad" batch lack
    model_params,    \* self.model's parameters
    training,        \* self.model.training
    opt_steps,       \* calls of self.optimizer.step() since construction
    checkpoint,      \* file at params.save_model
    pc,              \* where the running call stands
    in_train,        \* evaluate() was called from train()
    epoch,           \* train(): epoch
    batch_idx,       \* batches of the running loop already consumed
    epoch_loss,      \* epoch_loss of the innermost running loop
    train_loss,      \* train(): train_loss
    best_valid_loss, \* train(): best_valid_loss
    outcome,         \* how the last top-level call ended
    loss_log,        \* loss.item() of each batch of the running train loop
    calls,           \* collaborator calls of the current top-level call
    ckpt_writes,     \* epochs (1-based) of the current train() that saved
    steps_at_entry,  \* opt_steps when the current train() was entered
    nonfinite_seen,  \* the criterion gave a non-finite loss in the current call
    valid_losses,    \* what evaluate() returned to the current train(), per epoch
    n_calls          \* top-level calls made so far

vars == <<mode, num_epoch, train_iter, valid_iter, test_iter, forward_sig, missing_field,
          model_params, training, opt_steps, checkpoint, pc, in_train, epoch,
          batch_idx, epoch_loss, train_loss, best_valid_loss, outcome,
          loss_log, calls, ckpt_writes, steps_at_entry, nonfinite_seen, valid_losses, n_calls>>

config == <<mode, num_epoch, train_iter, valid_iter, test_iter, forward_sig, missing_field>>

\* ------------------------------------------------- names the loops bind
\* train() lines 52-62: local name -> key of the batch records it stacks
TrainCollate ==
    [cam_sequential |-> "cam_sequential", cate_sequential |-> "cate_sequential",
     brand_sequential |-> "price_sequential", price_sequential |-> "price_sequential",
     segment |-> "segment", cms_label |-> "cms", gender_label |-> "gender",
     age_label |-> "age", pvalue_label |-> "pvalue", shopping_label |-> "shopping",
     conversion_label |-> "label"]

\* evaluate() lines 97-107 and inference() lines 130-140: local -> batch attribute
EvalCollate ==
    [cam_sequential |-> "cam_sequential", cate_sequential |-> "cate_sequential",
     brand_sequential |-> "brand_sequential", price_sequential |-> "price_sequential",
     segment |-> "segment", cms_label |-> "cms", gender_label |-> "gender",
     age_label |-> "age", pvalue_label |-> "pvalue", shopping_label |-> "shopping",
     conversion_label |-> "label"]

\* the line of the statement that binds each local
TrainCollateLines ==
    [cam_sequential |-> 52, cate_sequential |-> 53, brand_sequential |-> 54,
     price_sequential |-> 55, segment |-> 56, cms_label |-> 57, gender_label |-> 58,
     age_label |-> 59, pvalue_label |-> 60, shopping_label |-> 61,
     conversion_label |-> 62]
EvaluateCollateLines ==
    [cam_sequential |-> 97, cate_sequential |-> 98, brand_sequential |-> 99,
     price_sequential |-> 100, segment |-> 101, cms_label |-> 102, gender_label |-> 103,
     age_label |-> 104, pvalue_label |-> 105, shopping_label |-> 106,
     conversion_label |-> 107]
InferenceCollateLines ==
    [cam_sequential |-> 130, cate_sequential |-> 131, brand_sequential |-> 132,
     price_sequential |-> 133, segment |-> 134, cms_label |-> 135, gender_label |-> 136,
     age_label |-> 137, pvalue_label |-> 138, shopping_label |-> 139,
     conversion_label |-> 140]

\* the lines of the statements that read field f of a batch
ReadLines(collate, lines, f) == {lines[n] : n \in {m \in DOMAIN collate : collate[m] = f}}

\* the collate statements fail on batch b: one of them reads the field b lacks
CollateFails(collate, lines, b) ==
    b = "bad" /\ ReadLines(collate, lines, missing_field) # {}

\* the statements run top to bottom: the first one reading the field raises
FirstReadLine(collate, lines) ==
    CHOOSE l \in ReadLines(collate, lines, missing_field) :
        \A k \in ReadLines(collate, lines, missing_field) : l <= k

\* locals handed to self.model(...), in order
TrainForwardArgs == <<"cam_sequential", "cate_sequential", "price_sequential", "segment">>
EvalForwardArgs ==
    <<"cam_sequential", "cate_sequential", "brand_sequential", "price_sequential", "segment">>

\* the batch fields behind a list of locals
FieldsOf(collate, args) == [i \in 1..Len(args) |-> collate[args[i]]]

\* names self.model(...) binds on return
ForwardOutputs ==
    {"cms_output", "gender_output", "age_output", "pvalue_output", "shopping_output",
     "conversion_output", "attn_map"}

\* locals bound when the statement after the forward call runs
TrainBound == DOMAIN TrainCollate \cup ForwardOutputs
EvaluateBound == DOMAIN EvalCollate \cup ForwardOutputs
InferenceBound == DOMAIN EvalCollate \cup ForwardOutputs

\* the first name the statement after the forward call reads
TrainFlattenReads == "conversion_output"
EvaluateFlattenReads == "output"
InferenceFlattenReads == "output"

\* the primary-task pair handed to self.criterion(...), its last two arguments:
\* train() passes the locals lines 67-68 flattened, evaluate() and inference()
\* the model's conversion output and the batch's label as they came
TrainLossArgs == <<"output", "target">>
EvaluateLossArgs == <<"conversion_output", "conversion_label">>
InferenceLossArgs == <<"conversion_output", "conversion_label">>

Call(f, a) == [f |-> f, args |-> a]

\* ------------------------------------------------------------------- Init
Init ==
    /\ mode \in {"train", "test"}
    /\ num_epoch \in 0..MaxEpoch
    /\ train_iter \in (IF mode = "train" THEN Iterators ELSE {<<>>})
    /\ valid_iter \in (IF mode = "train" THEN Iterators ELSE {<<>>})
    /\ test_iter \in (IF mode = "train" THEN {<<>>} ELSE Iterators)
    /\ forward_sig \in ForwardSignatures
    /\ missing_field \in (IF \E it \in {train_iter, valid_iter, test_iter} :
                                 \E i \in 1..Len(it) : it[i] = "bad"
                           THEN MissingFields ELSE {NoField})
    /\ model_params = FreshParams
    /\ training = TRUE
    /\ opt_steps = 0
    /\ checkpoint \in {NoFile, SavedParams}
    /\ pc = "idle"
    /\ in_train = FALSE
    /\ epoch = 0
    /\ batch_idx = 0
    /\ epoch_loss = Fin(0)
    /\ train_loss = Fin(0)
    /\ best_valid_loss = Inf
    /\ outcome = NoOutcome
    /\ loss_log = <<>>
    /\ calls = <<>>
    /\ ckpt_writes = {}
    /\ steps_at_entry = 0
    /\ nonfinite_seen = FALSE
    /\ valid_losses = <<>>
    /\ n_calls = 0

\* the top-level method the running call belongs to
TopOp ==
    IF in_train \/ pc \in {"epoch_head", "train_loop"} THEN "train"
    ELSE IF pc \in {"evaluate_head", "evaluate_loop"} THEN "evaluate"
    ELSE "inference"

\* the running call ends: its frames and their locals are gone
End(o) ==
    /\ pc' = "idle"
    /\ outcome' = o
    /\ in_train' = FALSE
    /\ epoch' = 0
    /\ batch_idx' = 0
    /\ epoch_loss' = Fin(0)
    /\ train_loss' = Fin(0)
    /\ best_valid_loss' = Inf
    /\ loss_log' = <<>>

Raise(e, l) == End(Raised(TopOp, e, l))

\* -------------------------------------------------------------- train()
\* lines 39-42: a caller invokes train()
TrainCall ==
    /\ pc = "idle"
    /\ n_calls < MaxCalls
    /\ n_calls' = n_calls + 1
    /\ pc' = "epoch_head"
    /\ best_valid_loss' = Inf
    /\ epoch' = 0
    /\ outcome' = NoOutcome
    /\ calls' = <<>>
    /\ ckpt_writes' = {}
    /\ steps_at_entry' = opt_steps
    /\ nonfinite_seen' = FALSE
    /\ valid_losses' = <<>>
    /\ UNCHANGED <<config, model_params, training, opt_steps, checkpoint, in_train,
                   batch_idx, epoch_loss, train_loss, loss_log>>

\* as EpochHead, with self.model.train() left out
EpochHeadKeepsMode ==
    /\ pc = "epoch_head"
    /\ IF epoch >= num_epoch
       THEN End(Returned("train", Fin(0)))
       ELSE IF mode # "train"
            THEN Raise("AttributeError", 49)
            ELSE /\ pc' = "train_loop"
                 /\ epoch_loss' = Fin(0)
                 /\ batch_idx' = 0
                 /\ loss_log' = <<>>
                 /\ UNCHANGED <<in_train, epoch, train_loss, best_valid_loss, outcome>>
    /\ UNCHANGED <<config, model_params, training, opt_steps, checkpoint, calls,
                   ckpt_writes, steps_at_entry, nonfinite_seen, n_calls, valid_losses>>

\* lines 44-49: the epoch loop's header, and the batch loop's
EpochHead ==
    /\ pc = "epoch_head"
    /\ IF epoch >= num_epoch
       THEN \* range(num_epoch) is exhausted: train() returns None
            /\ End(Returned("train", Fin(0)))
            /\ UNCHANGED training
       ELSE /\ training' = TRUE
            /\ IF mode # "train"
               THEN Raise("AttributeError", 49)
               ELSE /\ pc' = "train_loop"
                    /\ epoch_loss' = Fin(0)
                    /\ batch_idx' = 0
                    /\ loss_log' = <<>>
                    /\ UNCHANGED <<in_train, epoch, train_loss, best_valid_loss, outcome>>
    /\ UNCHANGED <<config, model_params, opt_steps, checkpoint, calls, ckpt_writes,
                   steps_at_entry, nonfinite_seen, n_calls>>
    /\ UNCHANGED valid_losses

\* as Accumulate, with = written for +=
AccumulateOverwrites(acc, l) == l

\* line 76: epoch_loss += loss.item()
Accumulate(acc, l) == FloatAdd(acc, l)

\* as OptimizerStep, with the call of step() left out
OptimizerStepSkipped(n) == n

\* line 74: self.optimizer.step() is one more step of the scheduled optimizer
OptimizerStep(n) == n + 1

\* as TrainUpdateCalls, with the clipping written after the step
TrainUpdateCallsClipLast ==
    <<Call("backward", <<>>), Call("step", <<>>), Call("clip_grad_norm_", <<>>)>>

\* lines 72-74: loss.backward(); clip_grad_norm_; self.optimizer.step()
TrainUpdateCalls == <<Call("backward", <<>>), Call("clip_grad_norm_", <<>>), Call("step", <<>>)>>

\* lines 49-76: one batch of the train iterator
TrainBatch ==
    /\ pc = "train_loop"
    /\ batch_idx < Len(train_iter)
    /\ \E l \in LossValues :
        LET c1 == Append(calls, Call("zero_grad", <<>>))
            c2 == Append(c1, Call("collate", <<>>))
            c3 == Append(c2, Call("forward", FieldsOf(TrainCollate, TrainForwardArgs)))
            c4 == Append(c3, Call("criterion", TrainLossArgs))
        IN  IF CollateFails(TrainCollate, TrainCollateLines, train_iter[batch_idx + 1])
            THEN /\ calls' = c1
                 /\ Raise("KeyError", FirstReadLine(TrainCollate, TrainCollateLines))
                 /\ UNCHANGED <<model_params, opt_steps, nonfinite_seen>>
            ELSE IF Len(TrainForwardArgs) \notin forward_sig
            THEN /\ calls' = c2
                 /\ Raise("TypeError", 64)
                 /\ UNCHANGED <<model_params, opt_steps, nonfinite_seen>>
            ELSE IF TrainFlattenReads \notin TrainBound
            THEN /\ calls' = c3
                 /\ Raise("UnboundLocalError", 67)
                 /\ UNCHANGED <<model_params, opt_steps, nonfinite_seen>>
            ELSE /\ calls' = c4 \o TrainUpdateCalls
                 /\ opt_steps' = OptimizerStep(opt_steps)
                 /\ model_params' = [model_params EXCEPT !.steps = @ + 1]
                 /\ epoch_loss' = Accumulate(epoch_loss, l)
                 /\ nonfinite_seen' = (nonfinite_seen \/ ~IsFinite(l))
                 /\ loss_log' = Append(loss_log, l)
                 /\ batch_idx' = batch_idx + 1
                 /\ UNCHANGED <<pc, in_train, epoch, train_loss, best_valid_loss, outcome>>
    /\ UNCHANGED <<config, training, checkpoint, ckpt_writes, steps_at_entry, n_calls>>
    /\ UNCHANGED valid_losses

\* line 78: train_loss = epoch_loss / len(self.train_iter)
MeanLoss(acc, n) == FloatDiv(acc, n)

\* lines 78-79: the batch loop is over; the mean, then the call of evaluate()
TrainLoopExit ==
    /\ pc = "train_loop"
    /\ batch_idx = Len(train_iter)
    /\ IF Len(train_iter) = 0
       THEN Raise("ZeroDivisionError", 78)
       ELSE /\ train_loss' = MeanLoss(epoch_loss, Len(train_iter))
            /\ pc' = "evaluate_head"
            /\ in_train' = TRUE
            /\ UNCHANGED <<epoch, batch_idx, epoch_loss, best_valid_loss, outcome, loss_log>>
    /\ UNCHANGED <<config, model_params, training, opt_steps, checkpoint, calls,
                   ckpt_writes, steps_at_entry, nonfinite_seen, n_calls>>
    /\ UNCHANGED valid_losses

\* ----------------------------------------------------------- evaluate()
\* line 91: a caller invokes evaluate() directly
EvaluateCall ==
    /\ pc = "idle"
    /\ n_calls < MaxCalls
    /\ n_calls' = n_calls + 1
    /\ nonfinite_seen' = FALSE
    /\ pc' = "evaluate_head"
    /\ outcome' = NoOutcome
    /\ calls' = <<>>
    /\ UNCHANGED <<config, model_params, training, opt_steps, checkpoint, in_train, epoch,
                   batch_idx, epoch_loss, train_loss, best_valid_loss, loss_log,
                   ckpt_writes, steps_at_entry>>
    /\ UNCHANGED valid_losses

\* lines 92-96: self.model.eval(); epoch_loss = 0; the batch loop's header
EvaluateHead ==
    /\ pc = "evaluate_head"
    /\ training' = FALSE
    /\ IF mode # "train"
       THEN Raise("AttributeError", 96)
       ELSE /\ pc' = "evaluate_loop"
            /\ epoch_loss' = Fin(0)
            /\ batch_idx' = 0
            /\ UNCHANGED <<in_train, epoch, train_loss, best_valid_loss, outcome, loss_log>>
    /\ UNCHANGED <<config, model_params, opt_steps, checkpoint, calls, ckpt_writes,
                   steps_at_entry, nonfinite_seen, n_calls>>
    /\ UNCHANGED valid_losses

\* as EvaluateBatch, with train()'s zero_grad() and optimizer step pasted into the loop
EvaluateBatchUpdates ==
    /\ pc = "evaluate_loop"
    /\ batch_idx < Len(valid_iter)
    /\ \E l \in LossValues :
        LET c0 == Append(calls, Call("zero_grad", <<>>)) \o <<Call("step", <<>>)>>
            c1 == Append(c0, Call("collate", <<>>))
            c2 == Append(c1, Call("forward", FieldsOf(EvalCollate, EvalForwardArgs)))
            c3 == Append(c2, Call("criterion", EvaluateLossArgs))
        IN  IF CollateFails(EvalCollate, EvaluateCollateLines, valid_iter[batch_idx + 1])
            THEN /\ calls' = c0
                 /\ Raise("AttributeError", FirstReadLine(EvalCollate, EvaluateCollateLines))
                 /\ UNCHANGED nonfinite_seen
            ELSE IF Len(EvalForwardArgs) \notin forward_sig
            THEN /\ calls' = c1
                 /\ Raise("TypeError", 109)
                 /\ UNCHANGED nonfinite_seen
            ELSE IF EvaluateFlattenReads \notin EvaluateBound
            THEN /\ calls' = c2
                 /\ Raise("UnboundLocalError", 111)
                 /\ UNCHANGED nonfinite_seen
            ELSE /\ calls' = c3
                 /\ epoch_loss' = Accumulate(epoch_loss, l)
                 /\ nonfinite_seen' = (nonfinite_seen \/ ~IsFinite(l))
                 /\ batch_idx' = batch_idx + 1
                 /\ UNCHANGED <<pc, in_train, epoch, train_loss, best_valid_loss, outcome,
                                loss_log>>
    /\ UNCHANGED <<config, training, checkpoint, ckpt_writes,
                   steps_at_entry, n_calls>>
    /\ UNCHANGED valid_losses
    /\ opt_steps' = OptimizerStep(opt_steps)
    /\ model_params' = [model_params EXCEPT !.steps = @ + 1]

\* lines 96-119: one batch of the validation iterator
EvaluateBatch ==
    /\ pc = "evaluate_loop"
    /\ batch_idx < Len(valid_iter)
    /\ \E l \in LossValues :
        LET c1 == Append(calls, Call("collate", <<>>))
            c2 == Append(c1, Call("forward", FieldsOf(EvalCollate, EvalForwardArgs)))
            c3 == Append(c2, Call("criterion", EvaluateLossArgs))
        IN  IF CollateFails(EvalCollate, EvaluateCollateLines, valid_iter[batch_idx + 1])
            THEN /\ calls' = calls
                 /\ Raise("AttributeError", FirstReadLine(EvalCollate, EvaluateCollateLines))
                 /\ UNCHANGED nonfinite_seen
            ELSE IF Len(EvalForwardArgs) \notin forward_sig
            THEN /\ calls' = c1
                 /\ Raise("TypeError", 109)
                 /\ UNCHANGED nonfinite_seen
            ELSE IF EvaluateFlattenReads \notin EvaluateBound
            THEN /\ calls' = c2
                 /\ Raise("UnboundLocalError", 111)
                 /\ UNCHANGED nonfinite_seen
            ELSE /\ calls' = c3
                 /\ epoch_loss' = Accumulate(epoch_loss, l)
                 /\ nonfinite_seen' = (nonfinite_seen \/ ~IsFinite(l))
                 /\ batch_idx' = batch_idx + 1
                 /\ UNCHANGED <<pc, in_train, epoch, train_loss, best_valid_loss, outcome,
                                loss_log>>
    /\ UNCHANGED <<config, model_params, training, opt_steps, checkpoint, ckpt_writes,
                   steps_at_entry, n_calls>>
    /\ UNCHANGED valid_losses

\* line 84: valid_loss < best_valid_loss
Improves(valid_loss, best) == FloatLess(valid_loss, best)

\* line 121: return epoch_loss / len(self.valid_iter); in train() the caller
\* goes on with lines 79-89: the comparison, the save, the next epoch
EvaluateReturn ==
    /\ pc = "evaluate_loop"
    /\ batch_idx = Len(valid_iter)
    /\ IF Len(valid_iter) = 0
       THEN /\ Raise("ZeroDivisionError", 121)
            /\ UNCHANGED <<checkpoint, calls, ckpt_writes, valid_losses>>
       ELSE LET valid_loss == MeanLoss(epoch_loss, Len(valid_iter))
            IN  IF in_train
                THEN /\ IF Improves(valid_loss, best_valid_loss)
                        THEN /\ best_valid_loss' = valid_loss
                             /\ checkpoint' = model_params
                             /\ calls' = Append(calls, Call("save", <<>>))
                             /\ ckpt_writes' = ckpt_writes \cup {epoch + 1}
                        ELSE UNCHANGED <<best_valid_loss, checkpoint, calls, ckpt_writes>>
                     /\ valid_losses' = Append(valid_losses, valid_loss)
                     /\ epoch' = epoch + 1
                     /\ pc' = "epoch_head"
                     /\ in_train' = FALSE
                     /\ UNCHANGED <<batch_idx, epoch_loss, train_loss, outcome, loss_log>>
                ELSE /\ End(Returned("evaluate", valid_loss))
                     /\ UNCHANGED <<checkpoint, calls, ckpt_writes, valid_losses>>
    /\ UNCHANGED <<config, model_params, training, opt_steps, steps_at_entry,
                   nonfinite_seen, n_calls>>

\* ---------------------------------------------------------- inference()
\* as InferenceCall, with self.test_iter read before the checkpoint is loaded
InferenceCallIterFirst ==
    /\ pc = "idle"
    /\ n_calls < MaxCalls
    /\ n_calls' = n_calls + 1
    /\ nonfinite_seen' = FALSE
    /\ IF mode = "train"
       THEN /\ pc' = "idle"
            /\ outcome' = Raised("inference", "AttributeError", 129)
            /\ calls' = <<>>
            /\ UNCHANGED <<model_params, training, batch_idx, epoch_loss>>
       ELSE IF checkpoint = NoFile
       THEN /\ pc' = "idle"
            /\ outcome' = Raised("inference", "FileNotFoundError", 124)
            /\ calls' = <<>>
            /\ UNCHANGED <<model_params, training, batch_idx, epoch_loss>>
       ELSE /\ model_params' = checkpoint
            /\ training' = FALSE
            /\ calls' = <<Call("load", <<>>)>>
            /\ pc' = "inference_loop"
            /\ outcome' = NoOutcome
            /\ epoch_loss' = Fin(0)
            /\ batch_idx' = 0
    /\ UNCHANGED <<config, opt_steps, checkpoint, in_train, epoch, train_loss,
                   best_valid_loss, loss_log, ckpt_writes, steps_at_entry, valid_losses>>

\* lines 123-129: load the checkpoint, self.model.eval(), the loop's header
InferenceCall ==
    /\ pc = "idle"
    /\ n_calls < MaxCalls
    /\ n_calls' = n_calls + 1
    /\ nonfinite_seen' = FALSE
    /\ IF checkpoint = NoFile
       THEN /\ pc' = "idle"
            /\ outcome' = Raised("inference", "FileNotFoundError", 124)
            /\ calls' = <<>>
            /\ UNCHANGED <<model_params, training, batch_idx, epoch_loss>>
       ELSE /\ model_params' = checkpoint
            /\ training' = FALSE
            /\ calls' = <<Call("load", <<>>)>>
            /\ IF mode = "train"
               THEN /\ pc' = "idle"
                    /\ outcome' = Raised("inference", "AttributeError", 129)
                    /\ UNCHANGED <<batch_idx, epoch_loss>>
               ELSE /\ pc' = "inference_loop"
                    /\ outcome' = NoOutcome
                    /\ epoch_loss' = Fin(0)
                    /\ batch_idx' = 0
    /\ UNCHANGED <<config, opt_steps, checkpoint, in_train, epoch, train_loss,
                   best_valid_loss, loss_log, ckpt_writes, steps_at_entry>>
    /\ UNCHANGED valid_losses

\* lines 129-150: one batch of the test iterator
InferenceBatch ==
    /\ pc = "inference_loop"
    /\ batch_idx < Len(test_iter)
    /\ \E l \in LossValues :
        LET c1 == Append(calls, Call("collate", <<>>))
            c2 == Append(c1, Call("forward", FieldsOf(EvalCollate, EvalForwardArgs)))
            c3 == Append(c2, Call("criterion", InferenceLossArgs))
        IN  IF CollateFails(EvalCollate, InferenceCollateLines, test_iter[batch_idx + 1])
            THEN /\ calls' = calls
                 /\ Raise("AttributeError", FirstReadLine(EvalCollate, InferenceCollateLines))
                 /\ UNCHANGED nonfinite_seen
            ELSE IF Len(EvalForwardArgs) \notin forward_sig
            THEN /\ calls' = c1
                 /\ Raise("TypeError", 142)
                 /\ UNCHANGED nonfinite_seen
            ELSE IF InferenceFlattenReads \notin InferenceBound
            THEN /\ calls' = c2
                 /\ Raise("UnboundLocalError", 144)
                 /\ UNCHANGED nonfinite_seen
            ELSE /\ calls' = c3
                 /\ epoch_loss' = Accumulate(epoch_loss, l)
                 /\ nonfinite_seen' = (nonfinite_seen \/ ~IsFinite(l))
                 /\ batch_idx' = batch_idx + 1
                 /\ UNCHANGED <<pc, in_train, epoch, train_loss, best_valid_loss, outcome,
                                loss_log>>
    /\ UNCHANGED <<config, model_params, training, opt_steps, checkpoint, ckpt_writes,
                   steps_at_entry, n_calls>>
    /\ UNCHANGED valid_losses

\* lines 152-153: test_loss = epoch_loss / len(self.test_iter); print
InferenceReturn ==
    /\ pc = "inference_loop"
    /\ batch_idx = Len(test_iter)
    /\ IF Len(test_iter) = 0
       THEN Raise("ZeroDivisionError", 152)
       ELSE End(Returned("inference", MeanLoss(epoch_loss, Len(test_iter))))
    /\ UNCHANGED <<config, model_params, training, opt_steps, checkpoint, calls,
                   ckpt_writes, steps_at_entry, nonfinite_seen, n_calls>>
    /\ UNCHANGED valid_losses

\* ------------------------------------------------------------------ Next
Next ==
    \/ TrainCall
    \/ EpochHead
    \/ TrainBatch
    \/ TrainLoopExit
    \/ EvaluateCall
    \/ EvaluateHead
    \/ EvaluateBatch
    \/ EvaluateReturn
    \/ InferenceCall
    \/ InferenceBatch
    \/ InferenceReturn

Spec == Init /\ [][Next]_vars

\* ------------------------------------------------------------- properties
AllOk(it) == \A i \in 1..Len(it) : it[i] = "ok"

\* train() is given non-empty iterators of well-formed batches and a model
\* that accepts the forward calls made on it
WellFormedTrain ==
    /\ mode = "train"
    /\ train_iter # <<>> /\ AllOk(train_iter)
    /\ valid_iter # <<>> /\ AllOk(valid_iter)
    /\ forward_sig = {4, 5}

\* the last top-level call was o and it is over
Ended(o) == pc = "idle" /\ outcome.op = o

\* calls of collaborator f in the current top-level call
CountCalls(f) == Cardinality({i \in 1..Len(calls) : calls[i].f = f})

\* epochs whose validation loss is strictly below every earlier one
StrictMinima(losses) ==
    {k \in 1..Len(losses) : /\ \A j \in 1..(k - 1) : FloatLess(losses[k], losses[j])
                            /\ FloatLess(losses[k], Inf)}

\* C1: train() writes the checkpoint at the end of epoch k exactly when epoch
\* k's validation loss is strictly below every earlier one; so a train() of at
\* least one epoch on well-formed inputs whose losses are all finite has
\* written the checkpoint at its first epoch.
C1_CheckpointOnStrictImprovement ==
    /\ ckpt_writes = StrictMinima(valid_losses)
    /\ (Ended("train") /\ WellFormedTrain /\ num_epoch >= 1 /\ ~nonfinite_seen)
          => (Len(valid_losses) >= 1 /\ 1 \in ckpt_writes)

\* C2: a call that meets a zero-length iterator fails with a DataError and
\* never with a division-by-zero fault.
C2_EmptyIteratorIsDataError ==
    /\ outcome.error # "ZeroDivisionError"
    /\ (Ended("evaluate") /\ mode = "train" /\ valid_iter = <<>>)
          => outcome.error = "DataError"

\* C3: evaluate() on n >= 1 well-formed batches runs the forward pass and the
\* criterion once per batch and returns the mean; it fails on no batch.
C3_EvaluateReturnsMean ==
    (Ended("evaluate") /\ mode = "train" /\ valid_iter # <<>> /\ AllOk(valid_iter)
        /\ 5 \in forward_sig)
      => /\ outcome.status = "returned"
         /\ CountCalls("forward") = Len(valid_iter)
         /\ CountCalls("criterion") = Len(valid_iter)

\* C4: on well-formed inputs train() runs num_epoch epochs, each over every
\* train batch and one evaluate(), and then returns normally.
C4_TrainRunsToCompletion ==
    (Ended("train") /\ WellFormedTrain)
      => /\ outcome.status = "returned"
         /\ Len(valid_losses) = num_epoch
         /\ opt_steps - steps_at_entry = num_epoch * Len(train_iter)

\* C5: inference() loads the checkpoint before the first forward pass and on
\* n >= 1 well-formed test batches processes each once and reports the mean,
\* failing on no batch.
C5_InferenceReportsMean ==
    (Ended("inference") /\ mode = "test" /\ checkpoint # NoFile /\ test_iter # <<>>
        /\ AllOk(test_iter) /\ 5 \in forward_sig)
      => /\ outcome.status = "returned"
         /\ model_params = checkpoint
         /\ calls[1].f = "load"
         /\ CountCalls("forward") = Len(test_iter)
         /\ CountCalls("criterion") = Len(test_iter)

\* C6: the mean training loss of an epoch is the sum of that epoch's per-batch
\* losses divided by the number of train batches; the accumulator starts every
\* epoch at 0 and holds the losses of that epoch's batches only.
C6_MeanTrainLoss ==
    /\ pc = "train_loop"
          => (Len(loss_log) = batch_idx /\ epoch_loss = FloatSum(loss_log))
    /\ (in_train /\ pc \in {"evaluate_head", "evaluate_loop"})
          => /\ Len(loss_log) = Len(train_iter)
             /\ train_loss = FloatDiv(FloatSum(loss_log), Len(train_iter))

\* a second train() on the same Trainer has computed 3/2 from losses 1 and 2
C6_Witness ==
    /\ in_train /\ pc = "evaluate_head"
    /\ steps_at_entry > 0
    /\ loss_log = <<Fin(1), Fin(2)>>
    /\ train_loss = [k |-> "fin", n |-> 3, d |-> 2]

\* C7: a non-finite training loss aborts train() at that batch: the criterion
\* is the last call made, so no step follows, no later batch runs, the value
\* is not accumulated and nothing is saved.
C7_NonFiniteLossAborts ==
    nonfinite_seen
      => /\ pc = "idle"
         /\ outcome.status = "raised"
         /\ Len(calls) > 0
         /\ calls[Len(calls)].f = "criterion"

\* the running or last top-level call is evaluate() or inference()
EvalOrInferenceCall ==
    \/ pc \in {"evaluate_head", "evaluate_loop"} /\ ~in_train
    \/ pc = "inference_loop"
    \/ pc = "idle" /\ outcome.op \in {"evaluate", "inference"}

UpdateCalls == {"zero_grad", "backward", "clip_grad_norm_", "step", "save"}

NoUpdateCalls == \A i \in 1..Len(calls) : calls[i].f \notin UpdateCalls

\* what a step of evaluate() or inference() leaves alone
NoUpdateStep ==
    /\ (pc \in {"evaluate_head", "evaluate_loop"} /\ pc' # "epoch_head")
          => UNCHANGED <<opt_steps, checkpoint, model_params>>
    /\ (pc = "idle" /\ pc' = "evaluate_head")
          => UNCHANGED <<opt_steps, checkpoint, model_params>>
    /\ (pc = "inference_loop"
          \/ (pc = "idle" /\ (pc' = "inference_loop" \/ outcome'.op = "inference")))
          => UNCHANGED <<opt_steps, checkpoint>>

\* C8: evaluate() and inference() call none of zero_grad, backward, gradient
\* clipping and step; no step of theirs changes the optimizer step count or
\* the checkpoint file, and no step of evaluate() changes the parameters.
C8_EvalInferenceNoUpdate == [](EvalOrInferenceCall => NoUpdateCalls) /\ [][NoUpdateStep]_vars

\* evaluate(), called after a train() that took two steps, has run a forward
\* pass and ended with the two steps and the parameters they left
C8_Witness ==
    /\ Ended("evaluate")
    /\ CountCalls("forward") = 1
    /\ opt_steps = 2
    /\ model_params = [base |-> "init", steps |-> 2]

\* steps taken by the running train() at each point of its loops
StepsOfCall ==
    /\ pc = "epoch_head" => opt_steps - steps_at_entry = epoch * Len(train_iter)
    /\ pc = "train_loop"
          => opt_steps - steps_at_entry = epoch * Len(train_iter) + batch_idx
    /\ in_train => opt_steps - steps_at_entry = (epoch + 1) * Len(train_iter)

\* the step count moves by one, and only when a train batch completes
OneStepPerBatch ==
    IF pc = "train_loop" /\ pc' = "train_loop" /\ batch_idx' = batch_idx + 1
    THEN opt_steps' = opt_steps + 1
    ELSE opt_steps' = opt_steps

\* C9: the optimizer's step() runs exactly once per training batch: a train()
\* that has completed k passes over its B batches has taken k*B steps, and the
\* count is otherwise never changed, by later epochs, calls or evaluate().
C9_StepPerTrainBatch == []StepsOfCall /\ [][OneStepPerBatch]_vars

\* a second train() has finished its pass over two batches: four steps in all
C9_Witness ==
    /\ in_train /\ pc = "evaluate_loop"
    /\ Len(train_iter) = 2
    /\ steps_at_entry = 2
    /\ opt_steps = 4

\* C10: every forward pass, in train(), evaluate() and inference(), gets the
\* same five inputs in the same order, the brand input built from the price
\* field.
C10_SameForwardInputs ==
    \A i \in 1..Len(calls) :
        calls[i].f = "forward"
          => calls[i].args = <<"cam_sequential", "cate_sequential", "price_sequential",
                               "price_sequential", "segment">>

\* the calls train() makes for one batch, in the order of lines 50-74
BatchCallOrder ==
    <<"zero_grad", "collate", "forward", "criterion", "backward", "clip_grad_norm_", "step">>

\* calls[i .. i + n - 1] are the first n calls of a batch, in order
IsBatchPrefixAt(i, n) ==
    /\ i + n - 1 <= Len(calls)
    /\ \A j \in 1..n : calls[i + j - 1].f = BatchCallOrder[j]

\* C11: train() handles a batch by zero_grad, collate, forward, loss,
\* backward, clip, step, then the accumulation, each once and all before the
\* next batch starts: every step ends such a run of seven calls (so a clip of
\* the same batch comes right before it and that batch's zero_grad before its
\* backward), a batch that does not finish is the last thing the call does,
\* and after b batches each call has been made b times and b losses added.
C11_BatchSequence ==
    /\ \A i \in 1..Len(calls) :
          calls[i].f = "step" => (i >= 7 /\ IsBatchPrefixAt(i - 6, 7))
    /\ \A i \in 1..Len(calls) :
          calls[i].f = "zero_grad"
            => \/ IsBatchPrefixAt(i, 7)
               \/ /\ pc = "idle" /\ outcome.status = "raised"
                  /\ IsBatchPrefixAt(i, Len(calls) - i + 1)
    /\ pc = "train_loop"
          => /\ \A j \in 1..7 :
                   CountCalls(BatchCallOrder[j]) = epoch * Len(train_iter) + batch_idx
             /\ Len(loss_log) = batch_idx

\* two batches of a train() are done: fourteen calls, two losses added
C11_Witness ==
    /\ pc = "train_loop"
    /\ batch_idx = 2
    /\ Len(calls) = 14
    /\ calls[14].f = "step" /\ calls[13].f = "clip_grad_norm_" /\ calls[8].f = "zero_grad"

\* the mode the model is in while each batch loop runs
ModeOfLoop ==
    /\ pc = "train_loop" => training
    /\ pc \in {"evaluate_loop", "inference_loop"} => ~training

\* a step that makes a forward call or an optimizer step finds and leaves the
\* model in the mode of its loop
ForwardInMode ==
    /\ CountCalls("forward")' > CountCalls("forward")
          => IF pc = "train_loop" THEN training /\ training'
             ELSE pc \in {"evaluate_loop", "inference_loop"} /\ ~training /\ ~training'
    /\ opt_steps' # opt_steps => training /\ training'

\* C12: every forward pass on a training batch, and every optimizer step, runs
\* with the model in training mode, and every forward pass on a validation or
\* test batch with the model in evaluation mode; after evaluate() has left the
\* model in evaluation mode, it is back in training mode before the next
\* training batch.
C12_ModeOfForwardPass == []ModeOfLoop /\ [][ForwardInMode]_vars

\* a first train() went through its batches into evaluate(), which left the
\* model in evaluation mode; a second train() has done a batch in training mode
C12_Witness ==
    /\ pc = "train_loop"
    /\ n_calls = 2
    /\ AllOk(train_iter)
    /\ steps_at_entry = Len(train_iter)
    /\ batch_idx = 1
    /\ CountCalls("forward") = 1
    /\ training

\* C13: in train(), evaluate() and inference() alike, the forward pass of a
\* batch is followed by the loss on the flattened primary pair (output,
\* target), never on the raw conversion output and label.
C13_LossOnFlattenedPair ==
    /\ \A i \in 1..Len(calls) :
          calls[i].f = "forward"
            => (i < Len(calls) /\ calls[i + 1] = Call("criterion", <<"output", "target">>))
    /\ \A i \in 1..Len(calls) :
          calls[i].f = "criterion" => calls[i].args = <<"output", "target">>

\* C14: in train() nothing changes the parameters between an epoch's call of
\* evaluate() and that epoch's save, so the checkpoint a train() writes holds
\* exactly the parameters its recorded best validation loss was measured on:
\* a train() of at least one epoch on well-formed inputs with finite losses
\* has recorded a validation loss and written, at the end of one of its
\* epochs, the parameters that epoch's evaluate() ran on.
C14_SavedIsWhatWasMeasured ==
    (Ended("train") /\ WellFormedTrain /\ num_epoch >= 1 /\ ~nonfinite_seen)
          => /\ valid_losses # <<>>
             /\ ckpt_writes # {}
             /\ checkpoint.base = model_params.base
             /\ \E k \in ckpt_writes :
                   checkpoint.steps = steps_at_entry + k * Len(train_iter)

\* C15: best_valid_loss starts at +inf in every train() call, so a later
\* train() on the same Trainer whose first epoch gives a finite validation
\* loss overwrites the checkpoint with its own parameters, whatever the loss
\* of the checkpoint already on disk.
C15_EachCallOverwrites ==
    /\ (pc = "epoch_head" /\ epoch = 0) => best_valid_loss = Inf
    /\ (Ended("train") /\ WellFormedTrain /\ num_epoch >= 1 /\ ~nonfinite_seen
          /\ steps_at_entry > 0)
          => /\ ckpt_writes # {}
             /\ checkpoint.base = model_params.base
             /\ checkpoint.steps > steps_at_entry

\* train() of at least one epoch and evaluate(), on a Trainer built in another
\* mode than "train", end with an AttributeError before any batch; such a
\* Trainer never takes an optimizer step nor saves
WrongModeTrainEvaluate ==
    /\ (mode # "train" /\ Ended("train") /\ num_epoch >= 1)
          => (outcome = Raised("train", "AttributeError", 49) /\ calls = <<>>)
    /\ (mode # "train" /\ Ended("evaluate"))
          => (outcome = Raised("evaluate", "AttributeError", 96) /\ calls = <<>>)
    /\ mode # "train"
          => (opt_steps = 0 /\ model_params.steps = 0 /\ CountCalls("save") = 0)

\* C16 as stated: a Trainer holds only the iterators of its mode, so train()
\* and evaluate() on a Trainer built in another mode fail before any batch and
\* change nothing, and inference() on a Trainer built in train mode fails only
\* once the model's parameters have been replaced by the checkpoint's.
C16_WrongModeCalls ==
    /\ WrongModeTrainEvaluate
    /\ (mode = "train" /\ Ended("inference"))
          => (outcome.status = "raised" /\ model_params = checkpoint)

\* inference() on a Trainer built in train mode: with a checkpoint file it
\* fails at the test iterator, the parameters replaced; with none, at the load
WrongModeInference ==
    (mode = "train" /\ Ended("inference"))
      => IF checkpoint = NoFile
         THEN outcome = Raised("inference", "FileNotFoundError", 124) /\ calls = <<>>
         ELSE /\ outcome = Raised("inference", "AttributeError", 129)
              /\ model_params = checkpoint
              /\ calls = <<Call("load", <<>>)>>

\* what the steps of a call in the wrong mode leave alone
WrongModeStep ==
    /\ (mode # "train"
          /\ (pc \in {"epoch_head", "evaluate_head"}
                \/ (pc = "idle" /\ pc' \in {"epoch_head", "evaluate_head"})))
          => UNCHANGED <<model_params, opt_steps, checkpoint>>
    /\ (mode = "train" /\ pc = "idle" /\ pc' = "idle" /\ n_calls' # n_calls)
          => /\ UNCHANGED <<opt_steps, checkpoint>>
             /\ model_params' = IF checkpoint = NoFile THEN model_params ELSE checkpoint

\* C16, amended: as stated for train() and evaluate(); inference() on a
\* Trainer built in train mode fails at the test iterator once the parameters
\* have been replaced by the checkpoint's when a checkpoint file exists, and
\* fails at the load, the parameters unchanged, when none exists.
C16_WrongModeCallsAmended ==
    [](WrongModeTrainEvaluate /\ WrongModeInference) /\ [][WrongModeStep]_vars

\* a Trainer built in train mode took two steps, then inference() replaced its
\* parameters by the checkpoint's and failed at the missing test iterator
C16_Witness ==
    /\ mode = "train"
    /\ Ended("inference")
    /\ outcome.error = "AttributeError"
    /\ opt_steps = 2
    /\ model_params = SavedParams
====
